---------------------------- MODULE Spec2Model ----------------------------
(***************************************************************************)
(* Model of op25_udp_shim.py: the UDP -> TCP PCM shim (two ingestion       *)
(* buffers, priority arbiter, jitter-buffer primer, frame scheduler and    *)
(* the accept/stream session loop of main()).                              *)
(*                                                                         *)
(* Bytes.  A byte is modelled by its provenance: the k-th byte ever sent   *)
(* to the primary (OP25) port is the integer k, the k-th byte ever sent to *)
(* the override (inject) port is -k, and 0 is a padding byte b"\x00"       *)
(* produced by the shim itself.  A datagram and a buffer are sequences of  *)
(* such integers.                                                          *)
(*                                                                         *)
(* Time.  One time unit is 10 ms.  The code only ever looks at differences *)
(* of time.monotonic() readings, so the timestamps are kept relative to    *)
(* the last clock reading `now`:                                           *)
(*     sleep_s      = next_send_time - now                                 *)
(*     inject_age   = now - last_inject_time                               *)
(*     op25_rx_age  = now - last_op25_rx_time                              *)
(* The two ages and the clock itself saturate at AgeCap, which is larger   *)
(* than every threshold they are compared with.  last_inject_time and      *)
(* last_op25_rx_time start at the sentinel 0.0; inject_rx_set/op25_rx_set  *)
(* tell whether they have been assigned from the clock since.              *)
(*                                                                         *)
(* Sizes are scaled down (a frame is 4 bytes instead of 320, and so on);   *)
(* the definitions below say which source constant each one stands for.    *)
(***************************************************************************)
EXTENDS Integers, Sequences, FiniteSets, TLC

\* ------------------------------------------------------------- constants
\* FRAME_BYTES = FRAME_SAMPLES * BYTES_PER_SAMPLE (320 in the source; even).
FRAME_BYTES == 4
\* frame_interval = FRAME_SAMPLES / SAMPLE_RATE (0.02 s = 2 units of 10 ms).
frame_interval == 2
\* max_frames_per_loop (10 in the source).
max_frames_per_loop == 10
\* OP25_IDLE_RESET_S (0.40 s in the source, scaled).
OP25_IDLE_RESET_S == 3
\* time.sleep(min(sleep_s, 0.01)): the end-of-tick sleep is at most 10 ms.
SleepCap == 1

\* Configurations (environment-derived module constants of the source).
\* MIN_BUFFER_BYTES is 16 * OP25_MIN_BUFFER_MS: 0 (disabled) or even.
\* MAX_BUFFER_BYTES = int(16000 * MAX_BUFFER_SECONDS): any integer >= 0.
\* INJECT_HOLD_S = max(0.0, INJECT_HOLD_MS / 1000.0).
JitterConfig == [min |-> 6, max |-> 8, hold |-> 2]   \* jitter buffer on, even cap
PlainConfig == [min |-> 0, max |-> 5, hold |-> 0]    \* jitter buffer off, odd cap

\* ---------------------------------------------------------------- bounds
\* Datagrams a primary sender / an override sender sends in one run.
CallDatagrams == 3
OverrideDatagrams == 2
\* Datagrams the kernel queues on one UDP socket.
MaxQueue == 2
\* Downstream connections in a run that exercises the session loop.
MaxSessions == 2
\* Long stalls of the process (a consumer that stops reading, a descheduled
\* process) in a run that exercises the scheduler, and how long one lasts.
MaxStalls == 1
StallTime == 23
\* Saturation value of the clock and of the two ages.
AgeCap == 4

\* Sizes of the datagrams a sender may send (0: an empty datagram).
DatagramSizes == {0, 2, 5}

\* The environments that are explored: what the senders, the consumer and
\* the supervisor will still do (datagrams to each port, connections, write
\* failures, long stalls, a stop signal), each with a configuration.
Runs ==
    { \* the start of a call: priming, re-priming, short bursts
      [cfg |-> JitterConfig, op25 |-> CallDatagrams, inject |-> 0, conns |-> 1,
       faults |-> 0, stalls |-> 0, stop |-> FALSE],
      \* override against primary audio, hold window
      [cfg |-> JitterConfig, op25 |-> 2, inject |-> OverrideDatagrams, conns |-> 1,
       faults |-> 0, stalls |-> 0, stop |-> FALSE],
      \* buffers against the safety cap, jitter buffer disabled
      [cfg |-> PlainConfig, op25 |-> 2, inject |-> OverrideDatagrams, conns |-> 1,
       faults |-> 0, stalls |-> 0, stop |-> FALSE],
      \* sessions: disconnects, write failures, shutdown
      [cfg |-> JitterConfig, op25 |-> 2, inject |-> 1, conns |-> MaxSessions,
       faults |-> 1, stalls |-> 0, stop |-> TRUE],
      \* the scheduler behind schedule
      [cfg |-> PlainConfig, op25 |-> 1, inject |-> 0, conns |-> 1,
       faults |-> 0, stalls |-> MaxStalls, stop |-> FALSE],
      \* shutdown while the consumer does not read
      [cfg |-> PlainConfig, op25 |-> 0, inject |-> 0, conns |-> 1,
       faults |-> 0, stalls |-> MaxStalls, stop |-> TRUE] }

VARIABLES
    MIN_BUFFER_BYTES, MAX_BUFFER_BYTES, INJECT_HOLD_S,   \* configuration
    udp_sock, inject_sock,       \* datagrams queued in the kernel
    op25_sent, inject_sent,      \* bytes sent to each port so far
    op25_left, inject_left,      \* datagrams the senders will still send
    conns_left,                  \* connections the consumer will still open
    faults_left,                 \* writes that will still fail
    stalls_left,                 \* long stalls still to come
    stop_left,                   \* whether a stop signal will still come
    pc,                          \* position of main()
    running,                     \* the stop flag
    now,                         \* time.monotonic(), saturated
    audio_buf, inject_buf,
    inject_age, inject_rx_set,
    op25_primed,
    op25_rx_age, op25_rx_set,
    sleep_s,                     \* next_send_time - now
    frames_sent,
    inject_active,               \* the local of the pass of the sub-loop
    chunk,                       \* the frame written by the pass of the sub-loop
    rearmed,                     \* history: new data came after an idle gap and no
                                 \* frame has since found MIN_BUFFER_BYTES buffered
    tx_primed,                   \* history: op25_primed has been true since the
                                 \* primary transmission now buffered began
    op25_pre, inject_pre,        \* history: how many bytes had been sent to each port
                                 \* when the session was accepted, while one of them
                                 \* is still queued or buffered (0 after that)
    op25_out, inject_out,        \* history: the last byte of each source written
                                 \* to the connection of the session (0: none)
    nst_advance,                 \* history: by how much the last step of the session
                                 \* moved next_send_time
    last_error                   \* history: how the last failed write failed

config == <<MIN_BUFFER_BYTES, MAX_BUFFER_BYTES, INJECT_HOLD_S>>
socks == <<udp_sock, inject_sock, op25_sent, inject_sent>>
budget == <<op25_left, inject_left, conns_left, faults_left, stalls_left, stop_left>>
env == <<socks, budget>>
session == <<audio_buf, inject_buf, inject_age, inject_rx_set, op25_primed,
             op25_rx_age, op25_rx_set, sleep_s, frames_sent, inject_active, chunk,
             rearmed, tx_primed, op25_pre, inject_pre, op25_out, inject_out, nst_advance, last_error>>
vars == <<config, env, pc, running, now, session>>

\* ------------------------------------------------------- sequence helpers
Zeros(n) == [i \in 1..n |-> 0]
Take(s, n) == SubSeq(s, 1, n)
Drop(s, n) == SubSeq(s, n + 1, Len(s))
Min(a, b) == IF a < b THEN a ELSE b
Sat(t) == Min(t, AgeCap)

Abs(b) == IF b < 0 THEN -b ELSE b

\* The bytes of the datagrams of a queue, in arrival order.
RECURSIVE Flatten(_)
Flatten(q) == IF q = <<>> THEN <<>> ELSE Head(q) \o Flatten(Tail(q))

\* The bytes sent before the session began (the first `pre` bytes sent to the
\* port) matter as long as one of them is held in the queue or the buffer.
PreSession(pre, sock, buf) ==
    LET held == Flatten(sock) \o buf
    IN IF \E i \in 1..Len(held) : Abs(held[i]) <= pre THEN pre ELSE 0

\* The last byte written of a source after a frame; sign is 1 for the
\* primary source and -1 for the override source.
LastOut(prev, frame, sign) ==
    LET real == SelectSeq(frame, LAMBDA b : b * sign > 0)
    IN IF real = <<>> THEN prev ELSE Abs(real[Len(real)])

\* --------------------------------------------------------- pure functions
\* _drain_udp: recvfrom until BlockingIOError (empty queue) or until an empty
\* datagram is read (`if not data: break`, the datagram is gone from the
\* queue).  Returns the buffer, the bytes added and what stays queued.
RECURSIVE drain_loop(_, _, _)
drain_loop(sock, buf, added) ==
    IF sock = <<>> THEN [buf |-> buf, added |-> added, sock |-> sock]
    ELSE IF Head(sock) = <<>> THEN [buf |-> buf, added |-> added, sock |-> Tail(sock)]
    ELSE drain_loop(Tail(sock), buf \o Head(sock), added + Len(Head(sock)))

drain_udp(sock, buf) == drain_loop(sock, buf, 0)

\* Mutant of cap_buffer: drops the newest bytes instead of the oldest.
cap_buffer_KeepsOldest(buf, max_bytes) ==
    IF Len(buf) > max_bytes THEN Take(buf, max_bytes) ELSE buf

\* _cap_buffer: del buf[: len(buf) - max_bytes]
cap_buffer(buf, max_bytes) ==
    IF Len(buf) > max_bytes THEN Drop(buf, Len(buf) - max_bytes) ELSE buf

\* _enforce_sample_alignment: del buf[-1] when the length is odd
enforce_sample_alignment(buf) ==
    IF Len(buf) % 2 = 1 THEN Take(buf, Len(buf) - 1) ELSE buf

\* The two maintenance calls of a tick, in the order main() makes them.
Maintain(buf, max_bytes) == cap_buffer(enforce_sample_alignment(buf), max_bytes)

\* op25_primed = MIN_BUFFER_BYTES == 0
PrimedDefault(min_bytes) == min_bytes = 0

\* New data after an idle gap (line 235, second disjunct): a new call.
NewTransmission(added, rx_set, rx_age) ==
    added > 0 /\ rx_set /\ rx_age > OP25_IDLE_RESET_S

\* The primer update of a tick (lines 233-241): the new op25_primed.
PrimerUpdate(added, rx_set, rx_age, primed, min_bytes) ==
    IF added > 0
    THEN IF (~rx_set) \/ rx_age > OP25_IDLE_RESET_S
         THEN PrimedDefault(min_bytes) ELSE primed
    ELSE IF rx_set /\ rx_age > OP25_IDLE_RESET_S
         THEN PrimedDefault(min_bytes) ELSE primed

\* Mutant of InjectAgeAfterDrain: primary data restarts the hold window too.
InjectAgeAfterDrain_AnySource(added_inject, added_op25, age) ==
    IF added_inject > 0 \/ added_op25 > 0 THEN 0 ELSE age

\* if added_inject > 0: last_inject_time = now  (lines 227-228), as an age;
\* added_op25 plays no part in it.
InjectAgeAfterDrain(added_inject, added_op25, age) == IF added_inject > 0 THEN 0 ELSE age

\* if added_op25 > 0: last_op25_rx_time = now  (lines 233, 237), as an age.
Op25AgeAfterDrain(added_op25, age) == IF added_op25 > 0 THEN 0 ELSE age

\* Mutant of SessionInit: the primary buffer and the primer state are
\* created once, outside the accept loop.
SessionInit_KeepsPrimary(prev, clock, min_bytes) ==
    [audio_buf |-> prev.audio_buf, inject_buf |-> <<>>,
     inject_age |-> clock, inject_rx_set |-> FALSE,
     op25_primed |-> prev.op25_primed,
     op25_rx_age |-> clock, op25_rx_set |-> FALSE,
     sleep_s |-> 0]

\* Lines 206-219: the state a session starts with.  prev is the state the
\* previous session left behind, clock the value of time.monotonic().
SessionInit(prev, clock, min_bytes) ==
    [audio_buf |-> <<>>, inject_buf |-> <<>>,
     inject_age |-> clock, inject_rx_set |-> FALSE,      \* last_inject_time = 0.0
     op25_primed |-> PrimedDefault(min_bytes),
     op25_rx_age |-> clock, op25_rx_set |-> FALSE,       \* last_op25_rx_time = 0.0
     sleep_s |-> 0]                                      \* next_send_time = time.monotonic()

\* Mutant of InjectActive: a short override buffer does not count.
InjectActive_NeedsFullFrame(ibuf, age, hold) == Len(ibuf) >= FRAME_BYTES \/ age <= hold

\* inject_active = (len(inject_buf) > 0) or ((now - last_inject_time) <= INJECT_HOLD_S)
InjectActive(ibuf, age, hold) == Len(ibuf) > 0 \/ age <= hold

\* Mutant of PadFrame: the padding is forgotten.
PadFrame_NoPadding(buf) == buf

\* chunk = bytes(buf) + b"\x00" * missing (lines 260-261 and 274-276)
PadFrame(buf) == buf \o Zeros(FRAME_BYTES - Len(buf))

\* (MIN_BUFFER_BYTES > 0) and (not op25_primed) and (len(audio_buf) < MIN_BUFFER_BYTES)
GateHolds(abuf, primed, min_bytes) == min_bytes > 0 /\ ~primed /\ Len(abuf) < min_bytes

\* Mutant of Consume: the frame is removed from the wrong end.
Consume_FromTail(buf, n) == Take(buf, Len(buf) - n)

\* del buf[:bytes_needed] (lines 258 and 270)
Consume(buf, n) == Drop(buf, n)

\* Mutant of HadAny: an empty buffer counts as audio.
HadAny_Always(abuf) == TRUE

\* had_any = len(audio_buf) > 0 (line 275)
HadAny(abuf) == Len(abuf) > 0

\* One frame of the arbiter (lines 250-279): the chunk and the new buffers
\* and primer state.
BuildFrame(active, abuf, ibuf, primed, min_bytes) ==
    LET bytes_needed == FRAME_BYTES IN
    IF active
    THEN IF Len(ibuf) >= bytes_needed
         THEN [chunk |-> Take(ibuf, bytes_needed), inject_buf |-> Consume(ibuf, bytes_needed),
               audio_buf |-> abuf, op25_primed |-> primed]
         ELSE [chunk |-> PadFrame(ibuf), inject_buf |-> <<>>,
               audio_buf |-> abuf, op25_primed |-> primed]
    ELSE IF Len(abuf) >= bytes_needed
         THEN IF GateHolds(abuf, primed, min_bytes)
              THEN [chunk |-> Zeros(bytes_needed), inject_buf |-> ibuf,
                    audio_buf |-> abuf, op25_primed |-> primed]
              ELSE [chunk |-> Take(abuf, bytes_needed), inject_buf |-> ibuf,
                    audio_buf |-> Consume(abuf, bytes_needed),
                    op25_primed |-> IF min_bytes > 0 /\ ~primed THEN TRUE ELSE primed]
         ELSE [chunk |-> PadFrame(abuf), inject_buf |-> ibuf,
               audio_buf |-> <<>>,
               op25_primed |-> IF min_bytes > 0 /\ ~primed /\ HadAny(abuf)
                               THEN TRUE ELSE primed]

\* Mutant of AdvanceSchedule: the next frame is scheduled one interval after
\* the clock reading instead of one interval after the previous slot.
AdvanceSchedule_FromNow(next_send) == frame_interval

\* next_send_time += frame_interval (line 288); next_send is next_send_time
\* relative to the clock reading `now` of the pass.
AdvanceSchedule(next_send) == next_send + frame_interval

\* Mutant of Caught: the session catches nothing.
Caught_Nothing(err) == FALSE

\* except (BrokenPipeError, ConnectionResetError) of line 300: the errors of
\* conn.sendall the session absorbs.  "peer" is one of those two, "other" any
\* other exception sendall raises (TimeoutError, another OSError).
Caught(err) == err = "peer"

\* Mutant of SendLoopCond: off by one in the per-tick cap.
SendLoopCond_OffByOne(run, slp, sent) == run /\ slp <= 0 /\ sent <= max_frames_per_loop

\* while running and now >= next_send_time and frames_sent < max_frames_per_loop
SendLoopCond(run, slp, sent) == run /\ slp <= 0 /\ sent < max_frames_per_loop

\* ---------------------------------------------------------------- Init
Init ==
    /\ \E r \in Runs :
          /\ MIN_BUFFER_BYTES = r.cfg.min
          /\ MAX_BUFFER_BYTES = r.cfg.max
          /\ INJECT_HOLD_S = r.cfg.hold
          /\ op25_left = r.op25 /\ inject_left = r.inject
          /\ conns_left = r.conns /\ faults_left = r.faults
          /\ stalls_left = r.stalls /\ stop_left = r.stop
    /\ udp_sock = <<>> /\ inject_sock = <<>>
    /\ op25_sent = 0 /\ inject_sent = 0
    /\ pc = "accept"
    /\ running = TRUE
    /\ now = 1
    /\ audio_buf = <<>> /\ inject_buf = <<>>
    /\ inject_age = now /\ inject_rx_set = FALSE
    /\ op25_primed = PrimedDefault(MIN_BUFFER_BYTES)
    /\ op25_rx_age = now /\ op25_rx_set = FALSE
    /\ sleep_s = 0
    /\ frames_sent = 0
    /\ inject_active = FALSE
    /\ chunk = <<>>
    /\ rearmed = FALSE
    /\ tx_primed = PrimedDefault(MIN_BUFFER_BYTES)
    /\ op25_pre = 0 /\ inject_pre = 0
    /\ op25_out = 0 /\ inject_out = 0
    /\ nst_advance = 0
    /\ last_error = "none"

\* ------------------------------------------------------------ environment
\* A sender sends a datagram of n bytes to the primary port.  A datagram that
\* arrives during the send sub-loop or the sleep is first seen by the drain
\* of the next tick, so arrivals are taken at the top of a tick (or while
\* main() waits in accept); nothing reads the sockets once running is false.
ArriveOp25(n) ==
    /\ running /\ pc \in {"accept", "tick"}
    /\ op25_left > 0
    /\ Len(udp_sock) < MaxQueue
    /\ udp_sock' = Append(udp_sock, [i \in 1..n |-> op25_sent + i])
    /\ op25_sent' = op25_sent + n
    /\ op25_left' = op25_left - 1
    /\ UNCHANGED <<config, inject_sock, inject_sent, inject_left, conns_left, faults_left,
                   stalls_left, stop_left, pc, running, now, session>>

\* A sender sends a datagram of n bytes to the override port.
ArriveInject(n) ==
    /\ running /\ pc \in {"accept", "tick"}
    /\ inject_left > 0
    /\ Len(inject_sock) < MaxQueue
    /\ inject_sock' = Append(inject_sock, [i \in 1..n |-> -(inject_sent + i)])
    /\ inject_sent' = inject_sent + n
    /\ inject_left' = inject_left - 1
    /\ UNCHANGED <<config, udp_sock, op25_sent, op25_left, conns_left, faults_left,
                   stalls_left, stop_left, pc, running, now, session>>

\* SIGTERM / SIGINT: _handle_signal sets running = False, at any point.
Signal ==
    /\ stop_left
    /\ pc \notin {"done", "crashed"}
    /\ running' = FALSE
    /\ stop_left' = FALSE
    /\ UNCHANGED <<config, socks, op25_left, inject_left, conns_left, faults_left,
                   stalls_left, pc, now, session>>

\* Time that passes between two clock readings: d units, or one long stall.
Elapsed(normal) == normal \cup (IF stalls_left > 0 THEN {StallTime} ELSE {})

\* ---------------------------------------------------------------- main()
\* while running: server_sock.accept() times out after 1.0 s; continue.
AcceptTimeout ==
    /\ pc = "accept" /\ running
    /\ now' = AgeCap
    /\ UNCHANGED <<config, env, pc, running, session>>

\* accept() returns a connection: lines 200-219 set up the session.
Accept ==
    /\ pc = "accept" /\ running
    /\ conns_left > 0
    /\ LET prev == [audio_buf |-> audio_buf, inject_buf |-> inject_buf,
                    inject_age |-> inject_age, inject_rx_set |-> inject_rx_set,
                    op25_primed |-> op25_primed, op25_rx_age |-> op25_rx_age,
                    op25_rx_set |-> op25_rx_set, sleep_s |-> sleep_s]
           s0 == SessionInit(prev, now, MIN_BUFFER_BYTES)
       IN /\ audio_buf' = s0.audio_buf
          /\ inject_buf' = s0.inject_buf
          /\ inject_age' = s0.inject_age /\ inject_rx_set' = s0.inject_rx_set
          /\ op25_primed' = s0.op25_primed
          /\ op25_rx_age' = s0.op25_rx_age /\ op25_rx_set' = s0.op25_rx_set
          /\ sleep_s' = s0.sleep_s
    /\ rearmed' = FALSE
    /\ tx_primed' = PrimedDefault(MIN_BUFFER_BYTES)
    /\ op25_pre' = PreSession(op25_sent, udp_sock, <<>>)
    /\ inject_pre' = PreSession(inject_sent, inject_sock, <<>>)
    /\ op25_out' = 0 /\ inject_out' = 0
    /\ nst_advance' = 0
    /\ pc' = "tick"
    /\ conns_left' = conns_left - 1
    /\ UNCHANGED <<config, socks, op25_left, inject_left, faults_left, stalls_left, stop_left,
                   running, now, frames_sent, inject_active, chunk, last_error>>

\* The outer `while running` fails: the finally clause closes the sockets.
Shutdown ==
    /\ pc = "accept" /\ ~running
    /\ pc' = "done"
    /\ UNCHANGED <<config, env, running, now, session>>

\* The inner `while running` fails: conn.close(), back to the outer loop.
SessionStop ==
    /\ pc = "tick" /\ ~running
    /\ pc' = "accept"
    /\ UNCHANGED <<config, env, running, now, session>>

\* Lines 223-248: one tick up to the send sub-loop.
TickDrain ==
    /\ pc = "tick" /\ running
    /\ LET di == drain_udp(inject_sock, inject_buf)
           do == drain_udp(udp_sock, audio_buf)
       IN /\ inject_sock' = di.sock
          /\ inject_age' = InjectAgeAfterDrain(di.added, do.added, inject_age)
          /\ inject_rx_set' = (inject_rx_set \/ di.added > 0)
          /\ inject_buf' = Maintain(di.buf, MAX_BUFFER_BYTES)
          /\ udp_sock' = do.sock
          /\ op25_primed' = PrimerUpdate(do.added, op25_rx_set, op25_rx_age,
                                         op25_primed, MIN_BUFFER_BYTES)
          /\ op25_rx_age' = Op25AgeAfterDrain(do.added, op25_rx_age)
          /\ rearmed' = IF Len(Maintain(do.buf, MAX_BUFFER_BYTES)) >= MIN_BUFFER_BYTES
                        THEN FALSE
                        ELSE IF NewTransmission(do.added, op25_rx_set, op25_rx_age)
                             THEN TRUE ELSE rearmed
          /\ tx_primed' = IF do.added > 0 /\ (~op25_rx_set \/ op25_rx_age > OP25_IDLE_RESET_S)
                          THEN PrimedDefault(MIN_BUFFER_BYTES) ELSE tx_primed
          /\ op25_rx_set' = (op25_rx_set \/ do.added > 0)
          /\ audio_buf' = Maintain(do.buf, MAX_BUFFER_BYTES)
    /\ frames_sent' = 0
    /\ inject_active' = FALSE /\ chunk' = <<>>
    /\ op25_pre' = PreSession(op25_pre, udp_sock', audio_buf')
    /\ inject_pre' = PreSession(inject_pre, inject_sock', inject_buf')
    /\ nst_advance' = 0
    /\ pc' = "send"
    /\ UNCHANGED <<config, op25_sent, inject_sent, budget, running, now, sleep_s,
                   op25_out, inject_out, last_error>>

\* The clock is read again after d units.
Advance(d) ==
    /\ now' = Sat(now + d)
    /\ inject_age' = Sat(inject_age + d)
    /\ op25_rx_age' = Sat(op25_rx_age + d)
    /\ stalls_left' = IF d = StallTime THEN stalls_left - 1 ELSE stalls_left

\* Lines 249-289: one pass of the send sub-loop, conn.sendall succeeds.
SendFrame ==
    /\ pc = "send"
    /\ SendLoopCond(running, sleep_s, frames_sent)
    /\ LET active == InjectActive(inject_buf, inject_age, INJECT_HOLD_S)
           f == BuildFrame(active, audio_buf, inject_buf, op25_primed, MIN_BUFFER_BYTES)
       IN /\ inject_active' = active
          /\ chunk' = f.chunk
          /\ op25_out' = LastOut(op25_out, f.chunk, 1)
          /\ inject_out' = LastOut(inject_out, f.chunk, -1)
          /\ audio_buf' = f.audio_buf
          /\ inject_buf' = f.inject_buf
          /\ op25_primed' = f.op25_primed
          /\ tx_primed' = (tx_primed \/ f.op25_primed)
          /\ op25_pre' = PreSession(op25_pre, udp_sock, f.audio_buf)
          /\ inject_pre' = PreSession(inject_pre, inject_sock, f.inject_buf)
    /\ frames_sent' = frames_sent + 1
    /\ \E d \in Elapsed({0, 1}) :
          /\ Advance(d)
          /\ sleep_s' = AdvanceSchedule(sleep_s) - d
          /\ nst_advance' = (sleep_s' + d) - sleep_s
    /\ UNCHANGED <<config, socks, op25_left, inject_left, conns_left, faults_left, stop_left,
                   pc, running, inject_rx_set, op25_rx_set, rearmed, last_error>>

\* The frame is built but conn.sendall raises err.  A BrokenPipeError or a
\* ConnectionResetError is logged and re-raised at lines 283-285, caught at
\* line 300, and the finally clause of line 302 closes the connection: back
\* to the outer loop.  Any other exception is not caught: both finally
\* clauses run (the sockets are closed) and the exception leaves main().
SendFail(err) ==
    /\ pc = "send"
    /\ faults_left > 0
    /\ SendLoopCond(running, sleep_s, frames_sent)
    /\ LET active == InjectActive(inject_buf, inject_age, INJECT_HOLD_S)
           f == BuildFrame(active, audio_buf, inject_buf, op25_primed, MIN_BUFFER_BYTES)
       IN /\ inject_active' = active
          /\ audio_buf' = f.audio_buf
          /\ inject_buf' = f.inject_buf
          /\ op25_primed' = f.op25_primed
          /\ tx_primed' = (tx_primed \/ f.op25_primed)
          /\ op25_pre' = PreSession(op25_pre, udp_sock, f.audio_buf)
          /\ inject_pre' = PreSession(inject_pre, inject_sock, f.inject_buf)
    /\ faults_left' = faults_left - 1
    /\ last_error' = err
    /\ nst_advance' = 0
    /\ pc' = IF Caught(err) THEN "accept" ELSE "crashed"
    /\ UNCHANGED <<config, socks, op25_left, inject_left, conns_left, stalls_left, stop_left,
                   running, now, inject_age, inject_rx_set, op25_rx_age, op25_rx_set,
                   sleep_s, frames_sent, chunk, rearmed, op25_out, inject_out>>

\* The consumer closed or reset the connection.
SendFailPeer == SendFail("peer")

\* conn.sendall fails in another way.
SendFailOther == SendFail("other")

\* The frame is built and conn.sendall blocks: the consumer has stopped
\* reading and the send buffer of the connection is full.  The connection
\* returned by accept() is a blocking socket without a timeout.
SendBlocks ==
    /\ pc = "send"
    /\ stalls_left > 0
    /\ SendLoopCond(running, sleep_s, frames_sent)
    /\ LET active == InjectActive(inject_buf, inject_age, INJECT_HOLD_S)
           f == BuildFrame(active, audio_buf, inject_buf, op25_primed, MIN_BUFFER_BYTES)
       IN /\ inject_active' = active
          /\ chunk' = f.chunk
          /\ op25_out' = LastOut(op25_out, f.chunk, 1)
          /\ inject_out' = LastOut(inject_out, f.chunk, -1)
          /\ audio_buf' = f.audio_buf
          /\ inject_buf' = f.inject_buf
          /\ op25_primed' = f.op25_primed
          /\ tx_primed' = (tx_primed \/ f.op25_primed)
          /\ op25_pre' = PreSession(op25_pre, udp_sock, f.audio_buf)
          /\ inject_pre' = PreSession(inject_pre, inject_sock, f.inject_buf)
    /\ nst_advance' = 0
    /\ pc' = "write"
    /\ UNCHANGED <<config, env, running, now, inject_age, inject_rx_set, op25_rx_age,
                   op25_rx_set, sleep_s, frames_sent, rearmed, last_error>>

\* The consumer reads again: the blocked conn.sendall returns and the pass
\* of the sub-loop goes on with lines 287-289.  A signal handler that ran
\* meanwhile has not interrupted the call (sendall is resumed after the
\* handler returns).
WriteCompletes ==
    /\ pc = "write"
    /\ frames_sent' = frames_sent + 1
    /\ Advance(StallTime)
    /\ sleep_s' = AdvanceSchedule(sleep_s) - StallTime
    /\ nst_advance' = (sleep_s' + StallTime) - sleep_s
    /\ pc' = "send"
    /\ UNCHANGED <<config, socks, op25_left, inject_left, conns_left, faults_left, stop_left,
                   running, audio_buf, inject_buf, inject_rx_set, op25_primed, op25_rx_set,
                   inject_active, chunk, rearmed, tx_primed, op25_pre, inject_pre,
                   op25_out, inject_out, last_error>>

\* Lines 291-298: the sub-loop condition fails; sleep, then the next tick.
\* time.sleep(min(sleep_s, 0.01)) lasts one unit when a whole unit is left;
\* the 1 ms yield lasts less than one unit or, rounded up, one.
EndTickSleep ==
    /\ pc = "send"
    /\ ~SendLoopCond(running, sleep_s, frames_sent)
    /\ \E d \in Elapsed(IF sleep_s > 0 THEN {Min(sleep_s, SleepCap)} ELSE {0, 1}) :
          /\ Advance(d)
          /\ sleep_s' = sleep_s - d
          /\ nst_advance' = (sleep_s' + d) - sleep_s
    /\ pc' = "tick"
    /\ UNCHANGED <<config, socks, op25_left, inject_left, conns_left, faults_left, stop_left,
                   running, rearmed, tx_primed, op25_pre, inject_pre, op25_out, inject_out,
                   last_error,
                   audio_buf, inject_buf, inject_rx_set, op25_primed, op25_rx_set,
                   frames_sent, inject_active, chunk>>

Streaming ==
    \/ TickDrain
    \/ SessionStop
    \/ SendFrame
    \/ SendBlocks
    \/ SendFailPeer
    \/ SendFailOther
    \/ EndTickSleep

Next ==
    \/ \E n \in DatagramSizes : ArriveOp25(n)
    \/ \E n \in DatagramSizes : ArriveInject(n)
    \/ Signal
    \/ AcceptTimeout
    \/ Accept
    \/ Shutdown
    \/ Streaming
    \/ WriteCompletes

Spec == Init /\ [][Next]_vars

\* The single thread of main() keeps executing: every step of the streaming
\* loop that stays possible is taken, and so is the exit of the outer loop.
FairSpec == Spec /\ WF_vars(Streaming \/ Shutdown)

TypeOK ==
    /\ pc \in {"accept", "tick", "send", "write", "done", "crashed"}
    /\ last_error \in {"none", "peer", "other"}
    /\ running \in BOOLEAN
    /\ now \in 1..AgeCap
    /\ inject_age \in 0..AgeCap /\ op25_rx_age \in 0..AgeCap
    /\ frames_sent \in 0..(max_frames_per_loop + 1)
    /\ sleep_s <= frame_interval
\* ================================================================ claims
\* A pass of the send sub-loop wrote its frame to the connection.
FrameWritten == pc = "send" /\ frames_sent' = frames_sent + 1
\* The drain and maintenance part of a tick ran.
Drained == pc = "tick" /\ pc' = "send"
\* Override is active as the data model defines it: its buffer is non-empty
\* or override bytes were drained within the hold window.
OverrideActive == Len(inject_buf) > 0 \/ inject_age <= INJECT_HOLD_S
Silence == Zeros(FRAME_BYTES)
IsPrimaryByte(b) == b > 0
IsOverrideByte(b) == b < 0

\* C1: with the jitter buffer enabled, override inactive and the primer not
\* yet primed, every frame written while the primary buffer is below
\* MIN_BUFFER_BYTES is all-zero silence and consumes no primary byte,
\* whatever the sizes of the datagrams that filled the buffer.
C1_SilenceUntilMinBuffer ==
    [][ (/\ FrameWritten
         /\ MIN_BUFFER_BYTES > 0
         /\ ~OverrideActive
         /\ ~op25_primed
         /\ Len(audio_buf) < MIN_BUFFER_BYTES)
        => (chunk' = Silence /\ audio_buf' = audio_buf) ]_vars

\* C2: with the jitter buffer enabled, a primary burst shorter than
\* MIN_BUFFER_BYTES that no further primary data follows is eventually
\* consumed and primed becomes true, while the consumer stays connected and
\* the ticks continue.
ShortBurstWaiting ==
    /\ pc \in {"tick", "send"} /\ running
    /\ faults_left = 0 /\ ~stop_left                  \* the consumer stays
    /\ op25_left = 0 /\ udp_sock = <<>>               \* no further primary data
    /\ inject_left = 0 /\ inject_sock = <<>>          \* override inactive for good
    /\ ~OverrideActive
    /\ MIN_BUFFER_BYTES > 0 /\ ~op25_primed
    /\ audio_buf # <<>> /\ Len(audio_buf) < MIN_BUFFER_BYTES
C2_ShortBurstEventuallyEmitted ==
    ShortBurstWaiting ~> (audio_buf = <<>> /\ op25_primed)

\* C3: every frame written to the connection has exactly FRAME_BYTES bytes.
C3_FrameSize ==
    (pc = "send" /\ frames_sent > 0) => Len(chunk) = FRAME_BYTES
\* A frame made of a short override buffer and padding was written.
C3_Witness ==
    /\ pc = "send" /\ frames_sent > 0
    /\ \E i \in 1..Len(chunk) : IsOverrideByte(chunk[i])
    /\ \E i \in 1..Len(chunk) : chunk[i] = 0

\* C4: when override is active as a frame is built, the frame is the head of
\* the override buffer (zero-padded if short) and the primary buffer and the
\* primed flag stay as they were; no frame holds bytes of both sources; a
\* frame holds primary bytes only if the override buffer was empty and the
\* hold window had lapsed.
C4_OverridePriority ==
    [][ FrameWritten =>
          /\ OverrideActive =>
               /\ chunk' = IF Len(inject_buf) >= FRAME_BYTES
                           THEN SubSeq(inject_buf, 1, FRAME_BYTES)
                           ELSE inject_buf \o Zeros(FRAME_BYTES - Len(inject_buf))
               /\ audio_buf' = audio_buf
               /\ op25_primed' = op25_primed
          /\ ~(/\ \E i \in 1..Len(chunk') : IsPrimaryByte(chunk'[i])
               /\ \E i \in 1..Len(chunk') : IsOverrideByte(chunk'[i]))
          /\ (\E i \in 1..Len(chunk') : IsPrimaryByte(chunk'[i]))
                => (inject_buf = <<>> /\ inject_age > INJECT_HOLD_S) ]_vars
\* An override frame was written while primary audio was buffered.
C4_Witness ==
    /\ pc = "send" /\ frames_sent > 0 /\ inject_active
    /\ \E i \in 1..Len(chunk) : IsOverrideByte(chunk[i])
    /\ audio_buf # <<>>

\* C5: with the override buffer empty and the last override bytes drained in
\* a tick at time t, a frame built at time now is served by the override
\* source (silence, primary side untouched) when now - t <= INJECT_HOLD_S and
\* by the primary source when now - t > INJECT_HOLD_S; a drain that adds no
\* override bytes leaves the window where it was, whatever the primary drain
\* added.
C5_HoldWindow ==
    [][ /\ (FrameWritten /\ inject_buf = <<>> /\ inject_rx_set) =>
              /\ inject_age <= INJECT_HOLD_S =>
                    /\ inject_active'
                    /\ chunk' = Silence
                    /\ audio_buf' = audio_buf /\ op25_primed' = op25_primed
              /\ inject_age > INJECT_HOLD_S =>
                    /\ ~inject_active'
                    /\ chunk' =
                         IF Len(audio_buf) < FRAME_BYTES
                         THEN audio_buf \o Zeros(FRAME_BYTES - Len(audio_buf))
                         ELSE IF /\ MIN_BUFFER_BYTES > 0 /\ ~op25_primed
                                 /\ Len(audio_buf) < MIN_BUFFER_BYTES
                              THEN Silence
                              ELSE SubSeq(audio_buf, 1, FRAME_BYTES)
        /\ (Drained /\ drain_udp(inject_sock, inject_buf).added = 0) =>
              inject_age' = inject_age ]_vars
\* At the end of the hold window override still served the frame, although
\* enough primary audio was buffered to pass the priming gate.
C5_Witness ==
    /\ pc = "send" /\ frames_sent > 0 /\ inject_active
    /\ inject_rx_set /\ chunk = Silence
    /\ INJECT_HOLD_S > 0 /\ inject_age >= INJECT_HOLD_S
    /\ MIN_BUFFER_BYTES > 0 /\ Len(audio_buf) >= MIN_BUFFER_BYTES

\* C6: once new primary data has come after an idle gap longer than
\* OP25_IDLE_RESET_S, and until the primary buffer again holds
\* MIN_BUFFER_BYTES, every frame written with override inactive is silence
\* and consumes no primary byte.
C6_GateReappliesAfterIdle ==
    [][ (/\ FrameWritten
         /\ rearmed
         /\ MIN_BUFFER_BYTES > 0
         /\ ~OverrideActive
         /\ Len(audio_buf) < MIN_BUFFER_BYTES)
        => (chunk' = Silence /\ audio_buf' = audio_buf) ]_vars

\* C7: both buffers have even length whenever the arbiter reads them (after
\* the maintenance steps of the tick and after every frame).
C7_BuffersEven ==
    pc = "send" => (Len(audio_buf) % 2 = 0 /\ Len(inject_buf) % 2 = 0)

Newest(s, n) == SubSeq(s, Len(s) - n + 1, Len(s))
EvenPrefix(s) == SubSeq(s, 1, Len(s) - (Len(s) % 2))
\* What a buffer holds once the drain has appended the queued datagrams.
PrimaryDrained == drain_udp(udp_sock, audio_buf).buf
OverrideDrained == drain_udp(inject_sock, inject_buf).buf

\* C8 as claimed: after the maintenance steps and after every frame each
\* buffer holds at most MAX_BUFFER_BYTES bytes, and a drain that pushes a
\* buffer above the cap leaves exactly its newest MAX_BUFFER_BYTES bytes.
C8_CapKeepsNewestDrained ==
    [][ /\ Drained =>
              /\ Len(audio_buf') <= MAX_BUFFER_BYTES
              /\ Len(inject_buf') <= MAX_BUFFER_BYTES
              /\ Len(PrimaryDrained) > MAX_BUFFER_BYTES
                    => audio_buf' = Newest(PrimaryDrained, MAX_BUFFER_BYTES)
              /\ Len(OverrideDrained) > MAX_BUFFER_BYTES
                    => inject_buf' = Newest(OverrideDrained, MAX_BUFFER_BYTES)
        /\ FrameWritten =>
              /\ Len(audio_buf') <= MAX_BUFFER_BYTES
              /\ Len(inject_buf') <= MAX_BUFFER_BYTES ]_vars

\* C8 (amended): the length bound as claimed; the bytes that stay are the
\* newest MAX_BUFFER_BYTES bytes of the buffer as the alignment step left it
\* (without its last byte when the drained length was odd), in order.
C8_CapKeepsNewestAligned ==
    [][ /\ Drained =>
              /\ Len(audio_buf') <= MAX_BUFFER_BYTES
              /\ Len(inject_buf') <= MAX_BUFFER_BYTES
              /\ audio_buf' = IF Len(EvenPrefix(PrimaryDrained)) > MAX_BUFFER_BYTES
                              THEN Newest(EvenPrefix(PrimaryDrained), MAX_BUFFER_BYTES)
                              ELSE EvenPrefix(PrimaryDrained)
              /\ inject_buf' = IF Len(EvenPrefix(OverrideDrained)) > MAX_BUFFER_BYTES
                               THEN Newest(EvenPrefix(OverrideDrained), MAX_BUFFER_BYTES)
                               ELSE EvenPrefix(OverrideDrained)
        /\ FrameWritten =>
              /\ Len(audio_buf') <= MAX_BUFFER_BYTES
              /\ Len(inject_buf') <= MAX_BUFFER_BYTES ]_vars
\* The drain of this tick overflowed the primary buffer: it is full, its
\* newest byte is the last but one that was sent (alignment dropped the
\* last) and bytes are missing at its head.
C8_Witness ==
    /\ pc = "send" /\ frames_sent = 0 /\ op25_rx_age = 0
    /\ udp_sock = <<>>
    /\ Len(audio_buf) = MAX_BUFFER_BYTES
    /\ audio_buf[Len(audio_buf)] = op25_sent - 1
    /\ audio_buf[1] = op25_sent - MAX_BUFFER_BYTES

\* C9: every accepted connection starts with both buffers empty, primed at
\* its default, both last-receive timestamps unset and next_send_time equal
\* to the current monotonic time, whatever the previous session left.
C9_SessionStartsFresh ==
    [][ (pc = "accept" /\ pc' = "tick") =>
          /\ audio_buf' = <<>> /\ inject_buf' = <<>>
          /\ op25_primed' = (MIN_BUFFER_BYTES = 0)
          /\ ~inject_rx_set' /\ ~op25_rx_set'
          /\ inject_age' = now' /\ op25_rx_age' = now'
          /\ sleep_s' = 0 ]_vars
\* A second session has started after a write failure ended the first one,
\* which had drained a 5-byte datagram it could never emit.
C9_Witness ==
    /\ pc = "tick" /\ conns_left < MaxSessions - 1 /\ faults_left = 0
    /\ MIN_BUFFER_BYTES > FRAME_BYTES
    /\ op25_sent = 5 /\ op25_left = 1 /\ udp_sock = <<>>
    /\ ~op25_rx_set /\ audio_buf = <<>> /\ sleep_s = 0

\* C10: no tick writes more than 10 frames; a backlog of more than 10 frames
\* is worked off by later ticks and, while ticks keep running, ends.
Behind == pc \in {"tick", "send"} /\ sleep_s <= 0
C10_PerTickBound ==
    /\ [](frames_sent <= 10)
    /\ (Behind /\ sleep_s <= -(10 * frame_interval)) ~> ~Behind
\* A tick ended with 10 frames written and frames still due.
C10_Witness ==
    pc = "tick" /\ frames_sent = 10 /\ sleep_s <= 0

\* The session has a connection: main() is inside the try block of lines
\* 221-299; the finally clause of line 302 has closed it everywhere else.
InSession == pc \in {"tick", "send", "write"}

\* A step of main() (the senders and the signal leave pc and frames_sent).
MainStep == <<pc, frames_sent>>' # <<pc, frames_sent>>

\* C11: within a session next_send_time moves only by one frame_interval,
\* together with the emission of one frame; a frame is emitted only when the
\* clock reading is >= next_send_time; and the frames emitted never exceed
\* the frames due (next_send_time is never more than one interval ahead of
\* the clock).
C11_Schedule ==
    /\ [][ (InSession /\ InSession' /\ MainStep) =>
              /\ frames_sent' \in {frames_sent, frames_sent + 1, 0}
              /\ nst_advance' = IF frames_sent' = frames_sent + 1 THEN frame_interval ELSE 0
              /\ frames_sent' = frames_sent + 1 => sleep_s <= 0 ]_vars
    /\ [](InSession => sleep_s <= frame_interval)
\* Behind schedule, a tick has emitted three frames in a row and is still
\* behind.
C11_Witness ==
    pc = "send" /\ frames_sent = 3 /\ sleep_s < -frame_interval /\ nst_advance = frame_interval

\* A write of the session fails with an error of this kind.
WriteFails(kind) == InSession /\ faults_left' = faults_left - 1 /\ last_error' = kind

\* C12: when a write fails because the peer closed or reset the connection,
\* the session ends with its connection closed, the stop flag is unchanged
\* and main() is back at accept, where the next connection is accepted.
C12_PeerErrorEndsSessionOnly ==
    [][ WriteFails("peer") =>
          /\ pc' = "accept" /\ ~InSession'
          /\ running' = running
          /\ conns_left' = conns_left ]_vars
\* After a peer disconnect a later connection is being served.
C12_Witness ==
    pc = "send" /\ frames_sent > 0 /\ last_error = "peer" /\ running

\* C13: a write that fails with any other error ends the session like a
\* peer disconnect does: connection closed, main() back at accept, the
\* process not terminated.
C13_OtherErrorEndsSessionOnly ==
    [][ WriteFails("other") =>
          /\ pc' = "accept" /\ ~InSession'
          /\ running' = running ]_vars

\* C14: once the stop flag is set, main() eventually leaves its loops and
\* ends, wherever it was when the flag was set.
C14_StopTerminates ==
    (~running) ~> (pc \in {"done", "crashed"})

\* A pass of the send sub-loop built its frame and handed it to sendall.
FrameBuilt == pc = "send" /\ (frames_sent' = frames_sent + 1 \/ pc' = "write")
\* Nothing is buffered or queued and nothing more will come, and nothing
\* will end or block the session.
QuietInput ==
    /\ InSession /\ running /\ ~stop_left /\ faults_left = 0 /\ stalls_left = 0
    /\ op25_left = 0 /\ udp_sock = <<>> /\ audio_buf = <<>>
    /\ inject_left = 0 /\ inject_sock = <<>> /\ inject_buf = <<>>

\* C15: a frame built while the primary buffer is empty and override is not
\* active is FRAME_BYTES zero bytes and changes neither buffer nor primed;
\* with no input a connected consumer goes on receiving silence frames.
C15_SilenceWhenEmpty ==
    /\ [][ (FrameBuilt /\ audio_buf = <<>> /\ ~OverrideActive) =>
              /\ chunk' = Zeros(FRAME_BYTES)
              /\ audio_buf' = audio_buf /\ inject_buf' = inject_buf
              /\ op25_primed' = op25_primed ]_vars
    /\ QuietInput ~> (QuietInput /\ pc = "send" /\ frames_sent > 0 /\ chunk = Silence)
\* A silence frame went out of the primary branch with the primer unprimed,
\* after the transmission before it had been played out.
C15_Witness ==
    /\ pc = "send" /\ frames_sent > 0 /\ ~inject_active /\ chunk = Silence
    /\ audio_buf = <<>> /\ MIN_BUFFER_BYTES > 0 /\ ~op25_primed /\ op25_rx_set

\* C16: the drain of a tick appends to each buffer every datagram queued on
\* its socket, in arrival order and whatever the datagram lengths (zero
\* included); the number it returns is the number of bytes appended; a
\* source's last-received time is set exactly when that number is > 0 and
\* depends on nothing of the other source.
C16_DrainReadsEverything ==
    [][ Drained =>
          /\ udp_sock' = <<>> /\ inject_sock' = <<>>
          /\ audio_buf' = Maintain(audio_buf \o Flatten(udp_sock), MAX_BUFFER_BYTES)
          /\ inject_buf' = Maintain(inject_buf \o Flatten(inject_sock), MAX_BUFFER_BYTES)
          /\ drain_udp(udp_sock, audio_buf).added = Len(Flatten(udp_sock))
          /\ drain_udp(inject_sock, inject_buf).added = Len(Flatten(inject_sock))
          /\ op25_rx_age' = IF Len(Flatten(udp_sock)) > 0 THEN 0 ELSE op25_rx_age
          /\ op25_rx_set' = (op25_rx_set \/ Len(Flatten(udp_sock)) > 0)
          /\ inject_age' = IF Len(Flatten(inject_sock)) > 0 THEN 0 ELSE inject_age
          /\ inject_rx_set' = (inject_rx_set \/ Len(Flatten(inject_sock)) > 0) ]_vars

\* C17: once primed has been true for the transmission that is buffered,
\* every frame built with override inactive while the primary buffer holds
\* at least FRAME_BYTES bytes is the head of that buffer, however long ago
\* the last datagram of the transmission was received.
C17_NoGateMidTransmission ==
    [][ (/\ FrameBuilt
         /\ tx_primed
         /\ ~OverrideActive
         /\ Len(audio_buf) >= FRAME_BYTES)
        => (chunk' = SubSeq(audio_buf, 1, FRAME_BYTES)
            /\ audio_buf' = SubSeq(audio_buf, FRAME_BYTES + 1, Len(audio_buf))) ]_vars

\* C18: in a session that has received no override datagram and whose
\* override buffer is empty, override is not active when a frame is built,
\* whatever the clock reads: the frame is what the primary branch gives.
C18_NoOverrideWithoutDatagram ==
    [][ (FrameBuilt /\ ~inject_rx_set /\ inject_buf = <<>>) =>
          /\ ~inject_active'
          /\ chunk' = IF Len(audio_buf) < FRAME_BYTES
                      THEN audio_buf \o Zeros(FRAME_BYTES - Len(audio_buf))
                      ELSE IF /\ MIN_BUFFER_BYTES > 0 /\ ~op25_primed
                              /\ Len(audio_buf) < MIN_BUFFER_BYTES
                           THEN Silence
                           ELSE SubSeq(audio_buf, 1, FRAME_BYTES) ]_vars

\* C19: no byte of a datagram that arrived before the session was accepted
\* is written to its connection: every byte of a frame that is not padding
\* was sent to its port after the accept.
C19_NoPreSessionAudio ==
    [][ FrameBuilt =>
          \A i \in 1..Len(chunk') :
              /\ IsPrimaryByte(chunk'[i]) => chunk'[i] > op25_pre
              /\ IsOverrideByte(chunk'[i]) => -chunk'[i] > inject_pre ]_vars

\* The bytes of one source in the order they were sent, none twice.
InSendOrder(bytes) == \A i \in 1..(Len(bytes) - 1) : Abs(bytes[i]) < Abs(bytes[i + 1])
\* What a source still holds: its buffer, then its queue.
PrimaryHeld == audio_buf \o Flatten(udp_sock)
OverrideHeld == inject_buf \o Flatten(inject_sock)

\* C20: the real bytes of a frame are the head of one buffer, which the
\* frame removes, followed by padding only; they come later in the source's
\* stream than every byte written before in the session; the bytes a source
\* holds are in the order sent, all later than its last byte written and
\* all bytes that were sent to its port.
C20_HeadOnlyAtMostOnce ==
    /\ [][ FrameBuilt =>
              LET real == SelectSeq(chunk', LAMBDA b : b # 0)
                  n == Len(real)
              IN /\ chunk' = real \o Zeros(FRAME_BYTES - n)
                 /\ InSendOrder(real)
                 /\ (n > 0 /\ IsPrimaryByte(real[1])) =>
                       /\ real = SubSeq(audio_buf, 1, n)
                       /\ audio_buf' = SubSeq(audio_buf, n + 1, Len(audio_buf))
                       /\ inject_buf' = inject_buf
                       /\ real[1] > op25_out
                 /\ (n > 0 /\ IsOverrideByte(real[1])) =>
                       /\ real = SubSeq(inject_buf, 1, n)
                       /\ inject_buf' = SubSeq(inject_buf, n + 1, Len(inject_buf))
                       /\ audio_buf' = audio_buf
                       /\ -real[1] > inject_out ]_vars
    /\ [](/\ InSendOrder(PrimaryHeld) /\ InSendOrder(OverrideHeld)
          /\ \A i \in 1..Len(PrimaryHeld) :
                PrimaryHeld[i] > op25_out /\ PrimaryHeld[i] <= op25_sent
          /\ \A i \in 1..Len(OverrideHeld) :
                -OverrideHeld[i] > inject_out /\ -OverrideHeld[i] <= inject_sent)
\* A full primary frame went out that begins behind the first four bytes
\* sent (written or dropped before), with more audio still buffered.
C20_Witness ==
    /\ pc = "send" /\ frames_sent > 0
    /\ chunk[1] > FRAME_BYTES /\ op25_out = chunk[FRAME_BYTES]
    /\ op25_out > chunk[1]
    /\ audio_buf # <<>>

=============================================================================
